---- MODULE Spec2Model ----
(***************************************************************************)
(* Model of the EKS CloudForge Flask application (src/app/app.py).         *)
(*                                                                         *)
(* The process holds two module-level globals, START_TIME and              *)
(* REQUEST_COUNT.  Every view function and both error handlers execute     *)
(* `REQUEST_COUNT += 1`, which is a load of the global followed by a       *)
(* store of the incremented value; threads of the server may interleave    *)
(* between the two.  A view that raises is answered by the handler         *)
(* registered for 500, which runs after the view and in the same thread.   *)
(***************************************************************************)
EXTENDS Integers, Sequences, FiniteSets, TLC

(* ---------------------------- bounds ----------------------------------- *)

\* number of requests the model lets the server receive
MaxRequests == 2

\* last instant of the model's wall clock
MaxTime == 1

\* instants of the model's wall clock in one second
TicksPerSecond == 2

\* request-handling threads of the server
Threads == {"t1", "t2"}

(* ---------------------------- routing ---------------------------------- *)

\* the @app.route decorators: path -> view function
UrlMap ==
    ("/" :> "index") @@ ("/health" :> "health") @@ ("/status" :> "status")
    @@ ("/metrics" :> "metrics") @@ ("/prometheus" :> "prometheus_metrics")
    @@ ("/api/info" :> "api_info")

Routes == DOMAIN UrlMap

\* paths no route matches
UnknownPaths == {"/nope"}

Paths == Routes \cup UnknownPaths

\* a path with a route goes to its view, any other path to the 404 handler
Dispatch(path) == IF path \in DOMAIN UrlMap THEN UrlMap[path] ELSE "not_found"

(* ---------------------------- OS queries ------------------------------- *)

\* a percentage is the exact rational n/d
Pct(n, d) == [n |-> n, d |-> d]

\* p > k for a percentage p and an integer k
PctGT(p, k) == p.n > k * p.d

\* values psutil may report for a percentage: at and just above 80
Percents == {Pct(80, 1), Pct(801, 10)}

\* psutil.cpu_percent(interval=1): a percentage, or the call raises
CpuOutcomes ==
    {[ok |-> TRUE, percent |-> p] : p \in Percents}
    \cup {[ok |-> FALSE, error |-> "CPU error"]}

\* psutil.virtual_memory(): a snapshot of a memory of 1000 bytes, or the call
\* raises
MemoryOutcomes ==
    {[ok |-> TRUE, percent |-> p, used |-> (p.n * 10) \div p.d,
      available |-> 1000 - (p.n * 10) \div p.d] : p \in Percents}
    \cup {[ok |-> FALSE, error |-> "Memory error"]}

\* psutil.disk_usage("/"): byte counts (total may be 0, and the percentage
\* used may round to 80.00 from above), or the call raises
DiskOutcomes ==
    {[ok |-> TRUE, total |-> 5, used |-> u, free |-> 5 - u] : u \in {4, 5}}
    \cup {[ok |-> TRUE, total |-> 25000, used |-> 20001, free |-> 4999]}
    \cup {[ok |-> TRUE, total |-> 0, used |-> 0, free |-> 0]}
    \cup {[ok |-> FALSE, error |-> "Disk error"]}

\* the readings exactly at the threshold of the alerts
AtThreshold(o) ==
    /\ o.cpu.ok => o.cpu.percent = Pct(80, 1)
    /\ o.memory.ok => o.memory.percent = Pct(80, 1)
    /\ o.disk.ok => o.disk.used = 4

\* what the three queries of one request return: every subset of the
\* queries failing, and each reading off the threshold with the other two on it
OsOutcomes ==
    {o \in [cpu : CpuOutcomes, memory : MemoryOutcomes, disk : DiskOutcomes] :
        \E k \in {"cpu", "memory", "disk"} :
            AtThreshold([o EXCEPT ![k] = [ok |-> FALSE, error |-> ""]])}

\* the outcomes explored where the state space is large: all readings at the
\* threshold, a failing query, and an empty disk
FewOutcomes ==
    {o \in OsOutcomes :
        /\ o.memory.ok /\ o.disk.ok
        /\ AtThreshold(o) \/ (o.cpu.ok /\ o.disk.total = 0)}

\* no query made
NoOs == [cpu |-> [ok |-> FALSE, error |-> ""],
         memory |-> [ok |-> FALSE, error |-> ""],
         disk |-> [ok |-> FALSE, error |-> ""]]

\* (disk.used / disk.total) * 100
DiskPercent(disk) == Pct(disk.used * 100, disk.total)

\* round(x, 2) of a non-negative rational, half to even, as hundredths
Round2(p) ==
    LET q == (p.n * 100) \div p.d
        r == (p.n * 100) % p.d
    IN  IF 2 * r > p.d \/ (2 * r = p.d /\ q % 2 = 1)
        THEN Pct(q + 1, 100) ELSE Pct(q, 100)

\* the exception raised by the three queries, made in the order cpu, memory,
\* disk: that of the first one that fails; "" when none fails
QueryError(os) ==
    IF ~os.cpu.ok THEN os.cpu.error
    ELSE IF ~os.memory.ok THEN os.memory.error
    ELSE IF ~os.disk.ok THEN os.disk.error
    ELSE ""

\* the exception raised by status() and metrics(), which after the queries
\* divide by disk.total; "" when none is raised
DivisionError(os) ==
    IF QueryError(os) # "" THEN QueryError(os)
    ELSE IF os.disk.total = 0 THEN "division by zero"
    ELSE ""

(* ---------------------------- clock ------------------------------------ *)

\* timedelta.total_seconds() of a difference of two instants of the clock
TotalSeconds(elapsed) == Pct(elapsed, TicksPerSecond)

\* str(timedelta) of a non-negative difference: days, hours, minutes and
\* seconds, then "." and the fraction of a second unless that is zero; the
\* text is given as its pieces between the "."
TimedeltaStr(elapsed) ==
    LET secs == elapsed \div TicksPerSecond
        whole == [days |-> secs \div 86400,
                  hours |-> (secs % 86400) \div 3600,
                  minutes |-> (secs % 3600) \div 60,
                  seconds |-> secs % 60]
    IN  IF elapsed % TicksPerSecond = 0 THEN <<whole>>
        ELSE <<whole, Pct(elapsed % TicksPerSecond, TicksPerSecond)>>

\* the uptime text taken from the elapsed time rounded to the second
UptimeStrRounded(elapsed) ==
    TimedeltaStr(((2 * elapsed + TicksPerSecond) \div (2 * TicksPerSecond))
                 * TicksPerSecond)[1]

\* str(timedelta).split(".")[0]: the text before the fractional seconds
UptimeStr(elapsed) == TimedeltaStr(elapsed)[1]

(* ---------------------------- environment ------------------------------ *)

\* the environment variables status() looks up
EnvNames == {"AWS_REGION", "EKS_CLUSTER_NAME", "POD_NAME", "POD_NAMESPACE"}

\* os.environ: the variables that are set, with their values
Environs ==
    UNION {[names -> {"set"}] : names \in SUBSET EnvNames}

\* os.environ of a process started with none of them set
NoEnviron == [name \in {} |-> ""]

\* os.environ.get(name, default)
Get(env, name, default) == IF name \in DOMAIN env THEN env[name] ELSE default

\* the "environment" object with namespace looked up under POD_NAME
EnvironmentSwapped(env) ==
    [instance_type |-> "t3.micro",
     region |-> Get(env, "AWS_REGION", "unknown"),
     cluster_name |-> Get(env, "EKS_CLUSTER_NAME", "unknown"),
     pod_name |-> Get(env, "POD_NAME", "unknown"),
     namespace |-> Get(env, "POD_NAME", "unknown")]

\* the "environment" object of status()
Environment(env) ==
    [instance_type |-> "t3.micro",
     region |-> Get(env, "AWS_REGION", "unknown"),
     cluster_name |-> Get(env, "EKS_CLUSTER_NAME", "unknown"),
     pod_name |-> Get(env, "POD_NAME", "unknown"),
     namespace |-> Get(env, "POD_NAMESPACE", "unknown")]

(* ---------------------------- responses -------------------------------- *)

\* no response sent yet
NoResponse == [status |-> 0, mimetype |-> "", body |-> [none |-> TRUE]]

\* index(): the rendered HTML page
IndexResponse(count, start, clock) ==
    [status |-> 200, mimetype |-> "text/html",
     body |-> [request_count |-> count,
               uptime |-> UptimeStr(clock - start),
               start_time |-> start \div TicksPerSecond,
               hostname |-> "node"]]

\* health() as a readiness probe that fails once requests were served
HealthResponseProbing(count, start, clock) ==
    [status |-> IF count > 1 THEN 503 ELSE 200,
     mimetype |-> "application/json",
     body |-> [status |-> IF count > 1 THEN "unhealthy" ELSE "healthy",
               timestamp |-> clock,
               uptime |-> UptimeStr(clock - start),
               requests_processed |-> count]]

\* health()
HealthResponse(count, start, clock) ==
    [status |-> 200, mimetype |-> "application/json",
     body |-> [status |-> "healthy",
               timestamp |-> clock,
               uptime |-> UptimeStr(clock - start),
               requests_processed |-> count]]

\* status(), when no query raised and disk.total # 0
StatusResponse(os, env, count, start, clock) ==
    [status |-> 200, mimetype |-> "application/json",
     body |-> [application |->
                   [name |-> "EKS CloudForge", version |-> "1.0.0",
                    status |-> "running", start_time |-> start,
                    uptime |-> UptimeStr(clock - start),
                    requests_processed |-> count],
               system |->
                   [cpu_percent |-> os.cpu.percent,
                    memory_percent |-> os.memory.percent,
                    disk_percent |-> Round2(DiskPercent(os.disk))],
               environment |-> Environment(env)]]

\* request_rate of metrics() dividing by the elapsed seconds
RequestRatePerSecond(count, elapsed) ==
    IF elapsed > 0 THEN Pct(count * TicksPerSecond, elapsed)
    ELSE Pct(0, 1)

\* request_rate of metrics(): REQUEST_COUNT / uptime_minutes if
\* uptime_minutes > 0 else 0, for the counter and the elapsed time read;
\* uptime_minutes is total_seconds() / 60
RequestRate(count, elapsed) ==
    IF elapsed > 0 THEN Pct(count * 60 * TicksPerSecond, elapsed)
    ELSE Pct(0, 1)

\* the "alerts" object with disk_high taken from the rounded percentage
AlertsRounded(os) ==
    [cpu_high |-> PctGT(os.cpu.percent, 80),
     memory_high |-> PctGT(os.memory.percent, 80),
     disk_high |-> PctGT(Round2(DiskPercent(os.disk)), 80)]

\* the "alerts" object with the comparisons written >= 80
AlertsInclusive(os) ==
    [cpu_high |-> ~PctGT(Pct(80 * os.cpu.percent.d, 1), os.cpu.percent.n),
     memory_high |->
         ~PctGT(Pct(80 * os.memory.percent.d, 1), os.memory.percent.n),
     disk_high |-> ~PctGT(Pct(80 * os.disk.total, 1), os.disk.used * 100)]

\* the "alerts" object of metrics()
Alerts(os) ==
    [cpu_high |-> PctGT(os.cpu.percent, 80),
     memory_high |-> PctGT(os.memory.percent, 80),
     disk_high |-> PctGT(DiskPercent(os.disk), 80)]

\* metrics(), when no query raised and disk.total # 0; rate is request_rate,
\* computed before the body is built, and count the counter read for the body
MetricsResponse(os, rate, count, start, clock) ==
    [status |-> 200, mimetype |-> "application/json",
     body |-> [metrics |->
                   [cpu_usage_percent |-> os.cpu.percent,
                    memory_usage_percent |-> os.memory.percent,
                    disk_usage_percent |-> Round2(DiskPercent(os.disk)),
                    requests_total |-> count,
                    requests_per_minute |-> Round2(rate),
                    uptime_seconds |-> TotalSeconds(clock - start)],
               alerts |-> Alerts(os)]]

\* one line of the exposition text: a "# HELP" or "# TYPE" comment of a
\* metric, or its sample, whose text is the label set before the value
Line(kind, name, text) == [kind |-> kind, name |-> name, text |-> text]

\* the three appends of a metric with its TYPE comment ahead of its HELP
MetricTypeFirst(name, help, type, labels) ==
    <<Line("TYPE", name, type), Line("HELP", name, help),
      Line("SAMPLE", name, labels)>>

\* the three appends of a metric: "# HELP", "# TYPE", then the sample
Metric(name, help, type, labels) ==
    <<Line("HELP", name, help), Line("TYPE", name, type),
      Line("SAMPLE", name, labels)>>

\* the list `metrics` of prometheus_metrics(), in the order of its appends
PrometheusLines ==
    Metric("app_requests_total", "Total number of requests", "counter", "")
    \o Metric("app_uptime_seconds", "Application uptime in seconds",
              "gauge", "")
    \o Metric("container_cpu_usage_seconds_total",
              "Total CPU usage in seconds", "counter",
              "container=eks-cloudforge-app")
    \o Metric("container_memory_usage_bytes", "Memory usage in bytes",
              "gauge", "container=eks-cloudforge-app")
    \o Metric("container_fs_usage_bytes", "Filesystem usage in bytes",
              "gauge", "container=eks-cloudforge-app")
    \o Metric("container_fs_limit_bytes", "Filesystem limit in bytes",
              "gauge", "container=eks-cloudforge-app")
    \o Metric("http_requests_total", "Total HTTP requests", "counter",
              "job=eks-cloudforge-app,status=200")
    \o Metric("http_request_duration_seconds_sum",
              "Sum of HTTP request durations", "counter",
              "job=eks-cloudforge-app")
    \o Metric("http_request_duration_seconds_count",
              "Count of HTTP requests", "counter", "job=eks-cloudforge-app")
    \o Metric("app_cost_per_hour", "Estimated cost per hour", "gauge",
              "job=eks-cloudforge-app")
    \o Metric("app_metrics_timestamp",
              "Last metrics collection timestamp", "gauge", "")

\* prometheus_metrics() with http_requests_total leaving out the request
\* being served
PrometheusResponseOthers(os, counts, elapsed, clock) ==
    [status |-> 200, mimetype |-> "text/plain",
     body |-> [lines |-> PrometheusLines,
               app_requests_total |-> counts[1],
               app_uptime_seconds |-> TotalSeconds(elapsed),
               container_cpu_usage_seconds_total |->
                   Pct(os.cpu.percent.n, os.cpu.percent.d * 100),
               container_memory_usage_bytes |-> os.memory.used,
               container_fs_usage_bytes |-> os.disk.used,
               container_fs_limit_bytes |-> os.disk.total,
               http_requests_total |-> counts[2] - 1,
               http_request_duration_seconds_sum |-> Pct(counts[3], 10),
               http_request_duration_seconds_count |-> counts[4],
               app_cost_per_hour |->
                   Pct(os.cpu.percent.n, os.cpu.percent.d * 1000000),
               app_metrics_timestamp |-> clock \div TicksPerSecond]]

\* prometheus_metrics(), when no query raised; counts are the four values of
\* REQUEST_COUNT its f-strings read, in their order, and elapsed is
\* uptime_seconds, computed before the list is built
PrometheusResponse(os, counts, elapsed, clock) ==
    [status |-> 200, mimetype |-> "text/plain",
     body |-> [lines |-> PrometheusLines,
               app_requests_total |-> counts[1],
               app_uptime_seconds |-> TotalSeconds(elapsed),
               container_cpu_usage_seconds_total |->
                   Pct(os.cpu.percent.n, os.cpu.percent.d * 100),
               container_memory_usage_bytes |-> os.memory.used,
               container_fs_usage_bytes |-> os.disk.used,
               container_fs_limit_bytes |-> os.disk.total,
               http_requests_total |-> counts[2],
               http_request_duration_seconds_sum |-> Pct(counts[3], 10),
               http_request_duration_seconds_count |-> counts[4],
               app_cost_per_hour |->
                   Pct(os.cpu.percent.n, os.cpu.percent.d * 1000000),
               app_metrics_timestamp |-> clock \div TicksPerSecond]]

\* api_info(): static JSON
ApiInfoResponse ==
    [status |-> 200, mimetype |-> "application/json",
     body |-> [api |-> [name |-> "EKS CloudForge API", version |-> "1.0.0"],
               deployment |-> [instance_type |-> "t3.micro"]]]

\* the list with one route forgotten
AvailableEndpointsShort ==
    <<"/", "/health", "/status", "/metrics", "/api/info">>

\* the list in the body of not_found()
AvailableEndpoints ==
    <<"/", "/health", "/status", "/metrics", "/prometheus", "/api/info">>

\* not_found(error)
NotFoundResponse ==
    [status |-> 404, mimetype |-> "application/json",
     body |-> [error |-> "Not Found",
               message |-> "The requested endpoint does not exist",
               available_endpoints |-> AvailableEndpoints]]

\* internal_error(error) answering with str(error)
InternalErrorResponseLeaking(error, clock) ==
    [status |-> 500, mimetype |-> "application/json",
     body |-> [error |-> "Internal Server Error",
               message |-> error,
               timestamp |-> clock]]

\* internal_error(error): error is the exception the view raised
InternalErrorResponse(error, clock) ==
    [status |-> 500, mimetype |-> "application/json",
     body |-> [error |-> "Internal Server Error",
               message |-> "An unexpected error occurred",
               timestamp |-> clock]]

(* ---------------------------- state ------------------------------------ *)

VARIABLES
    environ,        \* os.environ of the process
    START_TIME,     \* global: set when the module is loaded
    REQUEST_COUNT,  \* global: the request counter
    now,            \* the wall clock
    pc,             \* per thread: "idle", "load", "store", "body" or "build"
    path,           \* per thread: the path of the request being handled
    handler,        \* per thread: the function being run
    loaded,         \* per thread: the value of REQUEST_COUNT it loaded
    os,             \* per thread: what the OS queries of its view returned
    exc,            \* per thread: message of the exception its view raised
    reads,          \* per thread: values of REQUEST_COUNT its view has read
    uptime,         \* per thread: the elapsed time its view has computed
    last,           \* the response sent most recently, with its request
    started,        \* requests received so far
    completed,      \* responses sent so far
    raised          \* exceptions raised by views so far

vars == <<environ, START_TIME, REQUEST_COUNT, now, pc, path, handler, loaded,
          os, exc, reads, uptime, last, started, completed, raised>>

\* a request, the readings its view got, the exception its view raised and
\* the response it was given
Exchange(p, o, e, r) == [path |-> p, os |-> o, exc |-> e, resp |-> r]

\* the process just started, with the environment env
Started(env) ==
    /\ environ = env
    /\ START_TIME = 0
    /\ REQUEST_COUNT = 0
    /\ now = 0
    /\ pc = [t \in Threads |-> "idle"]
    /\ path = [t \in Threads |-> ""]
    /\ handler = [t \in Threads |-> ""]
    /\ loaded = [t \in Threads |-> 0]
    /\ os = [t \in Threads |-> NoOs]
    /\ exc = [t \in Threads |-> ""]
    /\ reads = [t \in Threads |-> <<>>]
    /\ uptime = [t \in Threads |-> 0]
    /\ last = Exchange("", NoOs, "", NoResponse)
    /\ started = 0
    /\ completed = 0
    /\ raised = 0

Init == Started(NoEnviron)

\* the process started with any of the variables set
InitEnv == \E env \in Environs : Started(env)

(* ---------------------------- actions ---------------------------------- *)

\* the wall clock advances
Tick ==
    /\ now < MaxTime
    /\ now' = now + 1
    /\ UNCHANGED <<environ, START_TIME, REQUEST_COUNT, pc, path, handler,
                   loaded, os, exc, reads, uptime, last, started, completed,
                   raised>>

\* instants at which the clock is read where the elapsed time is of interest:
\* within the first second, at and just after a whole second, within the
\* first minute, and after a day
Instants ==
    {0, 1, TicksPerSecond, TicksPerSecond + 1, 7, 60 * TicksPerSecond - 1,
     86400 * TicksPerSecond + 1}

\* the wall clock advances to a later one of these instants
Jump ==
    /\ \E i \in Instants : i > now /\ now' = i
    /\ UNCHANGED <<environ, START_TIME, REQUEST_COUNT, pc, path, handler,
                   loaded, os, exc, reads, uptime, last, started, completed,
                   raised>>

\* a GET request for path p arrives at idle thread t and is dispatched
Receive(t, p) ==
    /\ pc[t] = "idle"
    /\ started < MaxRequests
    /\ started' = started + 1
    /\ path' = [path EXCEPT ![t] = p]
    /\ handler' = [handler EXCEPT ![t] = Dispatch(p)]
    /\ pc' = [pc EXCEPT ![t] = "load"]
    /\ UNCHANGED <<environ, START_TIME, REQUEST_COUNT, now, loaded, os, exc,
                   reads, uptime, last, completed, raised>>

\* REQUEST_COUNT += 1, first half: load the global
LoadCount(t) ==
    /\ pc[t] = "load"
    /\ loaded' = [loaded EXCEPT ![t] = REQUEST_COUNT]
    /\ pc' = [pc EXCEPT ![t] = "store"]
    /\ UNCHANGED <<environ, START_TIME, REQUEST_COUNT, now, path, handler, os,
                   exc, reads, uptime, last, started, completed, raised>>

\* REQUEST_COUNT += 1, second half: store the loaded value plus one
StoreCount(t) ==
    /\ pc[t] = "store"
    /\ REQUEST_COUNT' = loaded[t] + 1
    /\ loaded' = [loaded EXCEPT ![t] = 0]
    /\ pc' = [pc EXCEPT ![t] = "body"]
    /\ UNCHANGED <<environ, START_TIME, now, path, handler, os, exc, reads,
                   uptime, last, started, completed, raised>>

\* returning restarts the measurement of the uptime
ReturnRestarting(t, o, r) ==
    /\ last' = Exchange(path[t], o, exc[t], r)
    /\ pc' = [pc EXCEPT ![t] = "idle"]
    /\ path' = [path EXCEPT ![t] = ""]
    /\ handler' = [handler EXCEPT ![t] = ""]
    /\ os' = [os EXCEPT ![t] = NoOs]
    /\ exc' = [exc EXCEPT ![t] = ""]
    /\ reads' = [reads EXCEPT ![t] = <<>>]
    /\ uptime' = [uptime EXCEPT ![t] = 0]
    /\ completed' = completed + 1
    /\ START_TIME' = now
    /\ UNCHANGED <<environ, REQUEST_COUNT, now, loaded, started, raised>>

\* thread t, whose view got the readings o, returns response r
Return(t, o, r) ==
    /\ last' = Exchange(path[t], o, exc[t], r)
    /\ pc' = [pc EXCEPT ![t] = "idle"]
    /\ path' = [path EXCEPT ![t] = ""]
    /\ handler' = [handler EXCEPT ![t] = ""]
    /\ os' = [os EXCEPT ![t] = NoOs]
    /\ exc' = [exc EXCEPT ![t] = ""]
    /\ reads' = [reads EXCEPT ![t] = <<>>]
    /\ uptime' = [uptime EXCEPT ![t] = 0]
    /\ completed' = completed + 1
    /\ UNCHANGED <<environ, START_TIME, REQUEST_COUNT, now, loaded, started,
                   raised>>

\* the view of thread t, which got the readings o, raises e: the handler
\* registered for 500 runs next in the thread
Raise(t, o, e) ==
    /\ os' = [os EXCEPT ![t] = o]
    /\ exc' = [exc EXCEPT ![t] = e]
    /\ handler' = [handler EXCEPT ![t] = "internal_error"]
    /\ pc' = [pc EXCEPT ![t] = "load"]
    /\ reads' = [reads EXCEPT ![t] = <<>>]
    /\ uptime' = [uptime EXCEPT ![t] = 0]
    /\ raised' = raised + 1
    /\ UNCHANGED <<environ, START_TIME, REQUEST_COUNT, now, path, loaded,
                   last, started, completed>>

\* the body of a view that makes no OS query and returns r
PlainView(t, h, r) ==
    /\ pc[t] = "body"
    /\ handler[t] = h
    /\ Return(t, os[t], r)

\* the body of a view that makes the three OS queries, which return o, and
\* then raises e or, when e is "", returns r
OsView(t, h, o, e, r) ==
    /\ pc[t] = "body"
    /\ handler[t] = h
    /\ IF e # "" THEN Raise(t, o, e) ELSE Return(t, o, r)

Index(t) ==
    PlainView(t, "index", IndexResponse(REQUEST_COUNT, START_TIME, now))

Health(t) ==
    PlainView(t, "health", HealthResponse(REQUEST_COUNT, START_TIME, now))

Status(t, o) ==
    OsView(t, "status", o, DivisionError(o),
           StatusResponse(o, environ, REQUEST_COUNT, START_TIME, now))

\* a view that goes on after its OS queries, which returned o: it has
\* computed the elapsed time and read REQUEST_COUNT once
Proceed(t, o) ==
    /\ os' = [os EXCEPT ![t] = o]
    /\ uptime' = [uptime EXCEPT ![t] = now - START_TIME]
    /\ reads' = [reads EXCEPT ![t] = <<REQUEST_COUNT>>]
    /\ pc' = [pc EXCEPT ![t] = "build"]
    /\ UNCHANGED <<environ, START_TIME, REQUEST_COUNT, now, path, handler,
                   loaded, exc, last, started, completed, raised>>

\* metrics() up to request_rate: the queries, then uptime_minutes and the
\* counter
Metrics(t, o) ==
    /\ pc[t] = "body"
    /\ handler[t] = "metrics"
    /\ IF QueryError(o) # "" THEN Raise(t, o, QueryError(o)) ELSE Proceed(t, o)

\* metrics() from there: the body, which divides by disk.total and reads
\* the counter and the clock again
MetricsBuild(t) ==
    /\ pc[t] = "build"
    /\ handler[t] = "metrics"
    /\ IF DivisionError(os[t]) # ""
       THEN Raise(t, os[t], DivisionError(os[t]))
       ELSE Return(t, os[t],
                   MetricsResponse(os[t], RequestRate(reads[t][1], uptime[t]),
                                   REQUEST_COUNT, START_TIME, now))

\* prometheus_metrics() up to its first f-string with the counter: the
\* queries, uptime_seconds, and app_requests_total
Prometheus(t, o) ==
    /\ pc[t] = "body"
    /\ handler[t] = "prometheus_metrics"
    /\ IF QueryError(o) # "" THEN Raise(t, o, QueryError(o)) ELSE Proceed(t, o)

\* the next two f-strings with the counter, taken as one step:
\* http_requests_total and http_request_duration_seconds_sum
PrometheusRead(t) ==
    /\ pc[t] = "build"
    /\ handler[t] = "prometheus_metrics"
    /\ Len(reads[t]) = 1
    /\ reads' = [reads EXCEPT ![t] = @ \o <<REQUEST_COUNT, REQUEST_COUNT>>]
    /\ UNCHANGED <<environ, START_TIME, REQUEST_COUNT, now, pc, path, handler,
                   loaded, os, exc, uptime, last, started, completed, raised>>

\* the last one, http_request_duration_seconds_count, and the response
PrometheusBuild(t) ==
    /\ pc[t] = "build"
    /\ handler[t] = "prometheus_metrics"
    /\ Len(reads[t]) = 3
    /\ Return(t, os[t],
              PrometheusResponse(os[t], Append(reads[t], REQUEST_COUNT),
                                 uptime[t], now))

ApiInfo(t) == PlainView(t, "api_info", ApiInfoResponse)

NotFound(t) == PlainView(t, "not_found", NotFoundResponse)

InternalError(t) ==
    PlainView(t, "internal_error", InternalErrorResponse(exc[t], now))

\* one step of thread t; the OS queries return one of the outcomes
Step(t, outcomes) ==
    \/ LoadCount(t)
    \/ StoreCount(t)
    \/ Index(t)
    \/ Health(t)
    \/ \E o \in outcomes : Status(t, o)
    \/ \E o \in outcomes : Metrics(t, o)
    \/ MetricsBuild(t)
    \/ \E o \in outcomes : Prometheus(t, o)
    \/ PrometheusRead(t)
    \/ PrometheusBuild(t)
    \/ ApiInfo(t)
    \/ NotFound(t)
    \/ InternalError(t)

\* no request is being handled
Quiet == \A t \in Threads : pc[t] = "idle"

\* the server with its threads handling requests in parallel
Next ==
    \/ Tick
    \/ \E t \in Threads, p \in Paths : Receive(t, p)
    \/ \E t \in Threads : Step(t, FewOutcomes)

Spec == Init /\ [][Next]_vars

\* requests handled one at a time: a request arrives only when no other is
\* being handled
NextSeq ==
    \/ Tick
    \/ \E t \in Threads, p \in Paths : Quiet /\ Receive(t, p)
    \/ \E t \in Threads : Step(t, OsOutcomes)

SpecSeq == Init /\ [][NextSeq]_vars

\* requests handled one at a time, every thread getting to run: the server's
\* threads are scheduled by the operating system, which starves none of them
NextFair ==
    \/ Tick
    \/ \E t \in Threads, p \in Paths : Quiet /\ Receive(t, p)
    \/ \E t \in Threads : Step(t, FewOutcomes)

SpecFair ==
    /\ Init /\ [][NextFair]_vars
    /\ \A t \in Threads : WF_vars(Step(t, FewOutcomes))

\* requests handled one at a time by a process started in any environment
SpecEnv == InitEnv /\ [][NextFair]_vars

\* requests handled one at a time while the clock runs for long
NextClock ==
    \/ Jump
    \/ \E t \in Threads, p \in Paths : Quiet /\ Receive(t, p)
    \/ \E t \in Threads : Step(t, FewOutcomes)

SpecClock == Init /\ [][NextClock]_vars

(* ---------------------------- properties ------------------------------- *)

\* a response has been sent
Sent == last.resp.status # 0

\* the metric categories
Categories == {"cpu", "memory", "disk"}

\* the six routes the specification names
SixRoutes == {"/", "/health", "/status", "/metrics", "/prometheus", "/api/info"}

\* C1: after any batch of sequential requests the counter equals the number
\* of requests of the batch (the counter starts at 0).
C1_SequentialCount == Quiet => REQUEST_COUNT = completed

\* C2: when requests handled in parallel have all completed, and none of
\* them raised, the counter has grown by exactly their number.
C2_NoLostUpdate == (Quiet /\ raised = 0) => REQUEST_COUNT = completed

\* C3: while an error handler (404 or 500) builds its response, the request
\* it answers has raised the counter by exactly 1 (requests one at a time).
C3_ErrorPathCountsOnce ==
    \A t \in Threads :
        (pc[t] = "body" /\ handler[t] \in {"not_found", "internal_error"})
            => REQUEST_COUNT = completed + 1

\* C4: no step of the server lowers the counter.
C4_Monotonic == [][REQUEST_COUNT' >= REQUEST_COUNT]_vars

\* body carries, under category k, an error field with message msg
HasError(body, k, msg) ==
    /\ k \in DOMAIN body
    /\ "error" \in DOMAIN body[k]
    /\ body[k].error = msg

\* C5: a /metrics or /status request during which a query fails is answered
\* 200, with the failure's message in an error field under its category.
C5_FailureSurfaced ==
    (Sent /\ last.path \in {"/metrics", "/status"}
          /\ \E k \in Categories : ~last.os[k].ok)
        => /\ last.resp.status = 200
           /\ \A k \in Categories :
                  ~last.os[k].ok
                      => HasError(last.resp.body, k, last.os[k].error)

\* the response of exchange x reports the reading of category k
Reports(x, k) ==
    /\ x.resp.status = 200
    /\ IF x.path = "/metrics"
       THEN /\ "metrics" \in DOMAIN x.resp.body
            /\ CASE k = "cpu" ->
                        x.resp.body.metrics.cpu_usage_percent
                            = x.os.cpu.percent
                 [] k = "memory" ->
                        x.resp.body.metrics.memory_usage_percent
                            = x.os.memory.percent
                 [] k = "disk" ->
                        "disk_usage_percent" \in DOMAIN x.resp.body.metrics
       ELSE /\ "container_fs_usage_bytes" \in DOMAIN x.resp.body
            /\ CASE k = "cpu" ->
                        x.resp.body.container_cpu_usage_seconds_total.n
                            = x.os.cpu.percent.n
                 [] k = "memory" ->
                        x.resp.body.container_memory_usage_bytes
                            = x.os.memory.used
                 [] k = "disk" ->
                        x.resp.body.container_fs_usage_bytes = x.os.disk.used

\* C6: in a /metrics or /prometheus request during which some queries fail,
\* every category whose query does not fail is reported in the response.
C6_FailuresIndependent ==
    (Sent /\ last.path \in {"/metrics", "/prometheus"}
          /\ \E k \in Categories : ~last.os[k].ok)
        => \A k \in Categories : last.os[k].ok => Reports(last, k)

\* the response to a request whose view raised: 500, the three fields, and
\* the fixed message, which is not the text of the exception
Answered500(x) ==
    /\ x.resp.status = 500
    /\ DOMAIN x.resp.body = {"error", "message", "timestamp"}
    /\ x.resp.body.error = "Internal Server Error"
    /\ x.resp.body.message = "An unexpected error occurred"
    /\ x.resp.body.message # x.exc

\* C7: a request whose view raised is answered 500 with the fixed body, no
\* other request is answered 500, and every request received is answered.
C7_AlwaysAnswered ==
    /\ [](Sent => IF last.exc # "" THEN Answered500(last)
                  ELSE last.resp.status # 500)
    /\ \A t \in Threads : (pc[t] # "idle") ~> (pc[t] = "idle")

\* a request answered normally after an earlier one raised
C7_Witness ==
    /\ Quiet /\ raised = 1 /\ completed = 2
    /\ last.exc = "" /\ last.resp.status = 200

\* C8: every response to /health is 200 with status "healthy" and the fields
\* timestamp, uptime and requests_processed.
C8_HealthAlwaysHealthy ==
    (Sent /\ last.path = "/health")
        => /\ last.resp.status = 200
           /\ DOMAIN last.resp.body
                  = {"status", "timestamp", "uptime", "requests_processed"}
           /\ last.resp.body.status = "healthy"

\* /health answered while another /health request is being handled, after
\* an earlier request
C8_Witness ==
    /\ Sent /\ last.path = "/health"
    /\ last.resp.body.requests_processed > 1
    /\ \E t \in Threads : pc[t] # "idle" /\ path[t] = "/health"

\* C9: in a /metrics response each alert is true exactly when its reading
\* is greater than 80.
C9_AlertsAbove80 ==
    (Sent /\ last.path = "/metrics" /\ last.resp.status = 200)
        => LET a == last.resp.body.alerts
               o == last.os
           IN  /\ a.cpu_high = (o.cpu.percent.n > 80 * o.cpu.percent.d)
               /\ a.memory_high
                      = (o.memory.percent.n > 80 * o.memory.percent.d)
               /\ a.disk_high = (o.disk.used * 100 > 80 * o.disk.total)

\* cpu at exactly 80 not alerted while the disk, above 80, is
C9_Witness ==
    /\ Sent /\ last.path = "/metrics" /\ last.resp.status = 200
    /\ last.os.cpu.percent = Pct(80, 1)
    /\ ~last.resp.body.alerts.cpu_high
    /\ last.os.disk.used = last.os.disk.total
    /\ last.resp.body.alerts.disk_high

\* the elements of sequence s
Range(s) == {s[i] : i \in 1..Len(s)}

\* C10: a path outside the six routes is answered 404 "Not Found" with the
\* six routes listed once each, and no listed path is sent to the 404 handler.
C10_NotFoundListsRoutes ==
    /\ (Sent /\ last.path \notin SixRoutes)
           => /\ last.resp.status = 404
              /\ "error" \in DOMAIN last.resp.body
              /\ last.resp.body.error = "Not Found"
              /\ "available_endpoints" \in DOMAIN last.resp.body
              /\ Len(last.resp.body.available_endpoints) = 6
              /\ Range(last.resp.body.available_endpoints) = SixRoutes
    /\ (Sent /\ last.resp.status = 404) => last.path \notin SixRoutes
    /\ \A t \in Threads :
           (pc[t] # "idle" /\ path[t] \in SixRoutes)
               => handler[t] # "not_found"

\* an unknown path answered 404 after a listed path was answered
C10_Witness ==
    /\ Sent /\ last.path = "/nope" /\ last.resp.status = 404
    /\ completed = 2

\* the samples of the exposition text x
Samples(x) == {i \in 1..Len(x) : x[i].kind = "SAMPLE"}

\* C11: in a /prometheus response every sample line comes right after the
\* "# TYPE" line of its metric, that one right after its "# HELP" line, and no
\* metric name has two sample lines.
C11_TypeBeforeSample ==
    (Sent /\ last.path = "/prometheus" /\ last.resp.status = 200)
        => LET x == last.resp.body.lines
           IN  /\ \A i \in Samples(x) :
                      /\ i > 2
                      /\ x[i - 1].kind = "TYPE" /\ x[i - 1].name = x[i].name
                      /\ x[i - 2].kind = "HELP" /\ x[i - 2].name = x[i].name
               /\ \A i, j \in Samples(x) : x[i].name = x[j].name => i = j

\* a /prometheus response with its eleven samples
C11_Witness ==
    /\ Sent /\ last.path = "/prometheus" /\ last.resp.status = 200
    /\ Cardinality(Samples(last.resp.body.lines)) = 11

\* C12: in a /prometheus response http_requests_total and
\* http_request_duration_seconds_count equal the request counter,
\* http_request_duration_seconds_sum is a tenth of it, and no request answered
\* so far, whatever its status, is missing from it (requests one at a time).
C12_HttpRequestsTotal ==
    (Quiet /\ Sent /\ last.path = "/prometheus" /\ last.resp.status = 200)
        => LET b == last.resp.body
           IN  /\ b.http_requests_total = REQUEST_COUNT
               /\ b.http_request_duration_seconds_count = REQUEST_COUNT
               /\ b.http_request_duration_seconds_sum.n * 10
                      = REQUEST_COUNT * b.http_request_duration_seconds_sum.d
               /\ b.http_requests_total >= completed

\* /prometheus answered after a request that was answered 500
C12_Witness ==
    /\ Quiet /\ Sent /\ last.path = "/prometheus" /\ last.resp.status = 200
    /\ raised = 1 /\ completed = 2
    /\ last.resp.body.http_requests_total > 1

\* thread t returns from view h in this step
Returns(t, h) == pc[t] # "idle" /\ handler[t] = h /\ pc'[t] = "idle"

\* C17: the three request counts of a /prometheus response are equal, and
\* the counter metrics() reads for requests_total is the one it used for the
\* rate, also with other requests handled in parallel.
C17_ConsistentCounts ==
    [][\A t \in Threads :
          /\ Returns(t, "prometheus_metrics")
                 => LET b == last'.resp.body
                    IN  /\ b.app_requests_total = b.http_requests_total
                        /\ b.http_requests_total
                               = b.http_request_duration_seconds_count
          /\ Returns(t, "metrics")
                 => last'.resp.body.metrics.requests_total = reads[t][1]]_vars

\* x is a /health or /status response carrying requests_processed
Processed(x) == x.resp.status = 200 /\ x.path \in {"/health", "/status"}

\* the requests_processed of such a response
RequestsProcessed(x) ==
    IF x.path = "/health" THEN x.resp.body.requests_processed
    ELSE x.resp.body.application.requests_processed

\* C19: a /health or /status response never carries the requests_processed
\* of the /health or /status response sent before it.
C19_DistinctProcessed ==
    [][(completed' = completed + 1 /\ Processed(last) /\ Processed(last'))
          => RequestsProcessed(last') # RequestsProcessed(last)]_vars

\* x is a response 200 to path p
Ok(x, p) == x.path = p /\ x.resp.status = 200

\* the /status fields taken from the environment, with their variables
EnvFields ==
    ("region" :> "AWS_REGION") @@ ("cluster_name" :> "EKS_CLUSTER_NAME")
    @@ ("pod_name" :> "POD_NAME") @@ ("namespace" :> "POD_NAMESPACE")

\* C13: in a /status response each of region, cluster_name, pod_name and
\* namespace is "unknown" when its own variable is unset and that variable's
\* value otherwise.
C13_EnvironmentDefaults ==
    Ok(last, "/status")
        => \A f \in DOMAIN EnvFields :
               last.resp.body.environment[f]
                   = IF EnvFields[f] \in DOMAIN environ
                     THEN environ[EnvFields[f]] ELSE "unknown"

\* /status answered in a process with POD_NAME set and POD_NAMESPACE unset
C13_Witness ==
    /\ Ok(last, "/status")
    /\ "POD_NAME" \in DOMAIN environ
    /\ "POD_NAMESPACE" \notin DOMAIN environ
    /\ last.resp.body.environment.pod_name = environ["POD_NAME"]
    /\ last.resp.body.environment.namespace = "unknown"

\* C14: requests_per_minute of a /metrics response is a number of hundredths,
\* never negative; it is 0 when no time has elapsed since the start, and
\* otherwise within half a hundredth of the counter divided by the elapsed
\* minutes (requests one at a time).
C14_RequestRate ==
    [][\A t \in Threads :
          Returns(t, "metrics")
              => LET r == last'.resp.body.metrics.requests_per_minute
                     e == uptime[t]
                     exact == REQUEST_COUNT * 60 * TicksPerSecond * 100
                     diff == IF r.n * e >= exact THEN r.n * e - exact
                             ELSE exact - r.n * e
                 IN  /\ r.d = 100
                     /\ r.n >= 0
                     /\ e >= 0
                     /\ e = 0 => r.n = 0
                     /\ e > 0 => 2 * diff <= e]_vars

\* a /metrics response whose rate had digits to round away
C14_Witness ==
    /\ Ok(last, "/metrics")
    /\ last.resp.body.metrics.requests_per_minute.n % 100 # 0
    /\ last.resp.body.metrics.uptime_seconds.n > TicksPerSecond

\* C15: no step changes the start time or the environment of the process:
\* of the process-wide state only the counter is modified.
C15_StartTimeFixed ==
    [][START_TIME' = START_TIME /\ environ' = environ]_vars

\* two requests answered, one of them 500, after the clock moved on
C15_Witness ==
    /\ completed >= 2 /\ raised >= 1 /\ REQUEST_COUNT >= 3
    /\ now > START_TIME

\* the views whose response carries the uptime text
UptimeViews == {"index", "health", "status"}

\* the uptime text of such a response
UptimeOf(x) ==
    IF x.path = "/status" THEN x.resp.body.application.uptime
    ELSE x.resp.body.uptime

\* the seconds a text of days, hours, minutes and seconds stands for
SecondsOf(u) == u.days * 86400 + u.hours * 3600 + u.minutes * 60 + u.seconds

\* C16: the uptime text of /, /health and /status is days, hours, minutes
\* and seconds only, standing for the whole seconds elapsed since the start
\* with the fraction dropped; uptime_seconds of /metrics is the elapsed time
\* with its fraction.
C16_UptimeTruncated ==
    [][\A t \in Threads :
          /\ (\E h \in UptimeViews : Returns(t, h))
                 => LET u == UptimeOf(last')
                        e == now - START_TIME
                    IN  /\ u \in [days : Nat, hours : 0..23,
                                  minutes : 0..59, seconds : 0..59]
                        /\ SecondsOf(u) * TicksPerSecond <= e
                        /\ e < (SecondsOf(u) + 1) * TicksPerSecond
          /\ Returns(t, "metrics")
                 => LET f == last'.resp.body.metrics.uptime_seconds
                    IN  f.n * TicksPerSecond = (now - START_TIME) * f.d]_vars

\* /health answered a second and a fraction after the start
C16_Witness ==
    /\ Ok(last, "/health")
    /\ last.resp.body.timestamp - START_TIME > TicksPerSecond
    /\ (last.resp.body.timestamp - START_TIME) % TicksPerSecond # 0
    /\ SecondsOf(last.resp.body.uptime) >= 1

\* C18 as stated: disk_high of a /metrics response is true exactly when the
\* disk_usage_percent it reports is above 80.
C18_DiskHighAgrees ==
    Ok(last, "/metrics")
        => (last.resp.body.alerts.disk_high
                <=> PctGT(last.resp.body.metrics.disk_usage_percent, 80))

\* C18: disk_high of a /metrics response is true exactly when used * 100 is
\* more than 80 times total; it is true whenever the reported
\* disk_usage_percent is above 80, and when it is true the reported value is
\* at least 80.
C18_DiskHighUnrounded ==
    Ok(last, "/metrics")
        => LET high == last.resp.body.alerts.disk_high
               r == last.resp.body.metrics.disk_usage_percent
           IN  /\ high <=> last.os.disk.used * 100 > 80 * last.os.disk.total
               /\ PctGT(r, 80) => high
               /\ high => r.n >= 80 * r.d

\* a /metrics response with disk_high true that reports 80.00
C18_Witness ==
    /\ Ok(last, "/metrics")
    /\ last.resp.body.alerts.disk_high
    /\ last.resp.body.metrics.disk_usage_percent = Pct(8000, 100)

====
